---- MODULE Spec2Model ----
(***************************************************************************)
(* The per-user task store of src/test_backend/main.mo (actor TodoBackend, *)
(* the Principal-keyed actor, lines 159-358) with the comment operations   *)
(* declared in the service interface (lines 360-382).                      *)
(*                                                                         *)
(* Texts are modelled as sequences of one-character strings so that the    *)
(* key encoding (concatenation, decimal rendering of the id) and the       *)
(* prefix test Text.startsWith are computed, not assumed.                  *)
(*                                                                         *)
(* Spec          the operations of main.mo and the upgrade                 *)
(* SpecComments  Spec with addComment and getComments                      *)
(* SpecClock     Spec with Time.now() advancing                            *)
(* SpecLoss      an upgrade that finds stable variables without a value    *)
(***************************************************************************)
EXTENDS Integers, Sequences, FiniteSets, TLC

\* ---------------------------------------------------------------- bounds
MaxId       == 2      \* addTask is enabled while nextTaskId <= MaxId
MaxComments == 2      \* addComment is enabled while the store holds fewer comments
MaxTime     == 1      \* the clock runs over 0..MaxTime
MaxCalls    == 2      \* update calls in flight at once

\* ---------------------------------------------------------------- inputs
\* Textual forms of the callers' principals (Principal.toText).  The first
\* is a proper prefix of the second, the case prefix filtering must survive.
Owners       == { <<"a">>, <<"a", "b">> }
Titles       == { "t1" }
Descriptions == { "d1" }
Texts        == { "x", "y" }

\* Arguments for makeTaskKey called on its own: owner texts over the alphabet
\* of Principal.toText (letters, the digits 2 to 7, "-"), one a prefix of
\* another and some ending in a digit, and ids of one to three digits
KeyOwners == Owners \cup { <<"a", "2">>, <<"2">>, <<"a", "-", "2">> }
KeyIds    == { 0, 2, 22, 202 }

VARIABLES
  tasks,         \* the HashMap<Text, Task>: a function from keys to records
  layout,        \* the order in which tasks.entries() visits the keys: the
                 \* keys of tasks as the table of the HashMap holds them
  nextTaskId,    \* stable var nextTaskId
  tasksEntries,  \* stable var tasksEntries: sequence of <<key, task>>
  phase,         \* "running", or "upgrading" between preupgrade and postupgrade
  now,           \* the value Time.now() returns
  issued,        \* history: the <<caller, id>> pairs addTask has returned
  keys,          \* history: the last (at most two) calls of makeTaskKey made on
                 \* their own, each as [owner, taskId, key]
  calls,         \* the update calls in flight, one per slot, each with the
                 \* position reached in its body, and base, the store as it
                 \* was when the first of them was submitted
  front,         \* the page in the browser: the state of AuthProvider, the
                 \* state of TodoAppEnhanced and its handler runs in flight
  toggled,       \* history: the records found by the last (at most two)
                 \* successful toggleStatus calls in a row on one task
  before,        \* history: tasks, nextTaskId and issued before the last step
  op,            \* the last step: [name, caller, id, text, flag]; text is
                 \* <<title, description>> on addTask and, on a query, the
                 \* answer of the step before when that was the same query;
                 \* flag is the
                 \* argument of getTasksByStatus; on addTask, whether the
                 \* step before it was postupgrade; on deleteTask, whether
                 \* the step before it was the same call and returned true
  ret            \* the value the last step returned

vars == <<tasks, layout, nextTaskId, tasksEntries, phase, now, issued, keys, calls, front,
          toggled, before, op, ret>>

\* What a step records of the state it starts from
Snapshot == [tasks |-> tasks, nextTaskId |-> nextTaskId, issued |-> issued]

\* ------------------------------------------------------- text primitives
Digit(d) == <<"0", "1", "2", "3", "4", "5", "6", "7", "8", "9">>[d + 1]

RECURSIVE NatToText(_)
\* Nat.toText: the decimal digits of n, most significant first
NatToText(n) == IF n < 10 THEN <<Digit(n)>>
                ELSE NatToText(n \div 10) \o <<Digit(n % 10)>>

\* Text.startsWith(t, #text p)
StartsWith(t, p) == /\ Len(p) <= Len(t)
                    /\ SubSeq(t, 1, Len(p)) = p

\* ----------------------------------------------------------- key encoding
\* Variant: the owner's text and the id's text are joined with nothing between
makeTaskKey_NoDelimiter(owner, taskId) == owner \o NatToText(taskId)

\* Variant: the key is the id's text alone, as before tasks had owners
makeTaskKey_IdOnly(owner, taskId) == NatToText(taskId)

\* Principal.toText(owner) # "_" # Nat.toText(taskId)
makeTaskKey(owner, taskId) == owner \o <<"_">> \o NatToText(taskId)

\* Variant: the prefix without the delimiter after the owner's text
makeUserPrefix_NoDelimiter(owner) == owner

makeUserPrefix(owner) == owner \o <<"_">>

\* ------------------------------------------------------------- the map
EmptyMap == [k \in {} |-> 0]

\* HashMap.put
Put(m, k, v) == [x \in DOMAIN m \cup {k} |-> IF x = k THEN v ELSE m[x]]

\* Variant: remove leaves the map as it is
Remove_Keep(m, k) == m

\* HashMap.remove (the map part)
Remove(m, k) == [x \in DOMAIN m \ {k} |-> m[x]]

\* The orders in which an iteration of the map can visit the keys S (the
\* keys a filter drops do not change the order of the others)
KeyOrders(S) == { s \in [1 .. Cardinality(S) -> S] :
                    \A i, j \in 1 .. Cardinality(S) : i # j => s[i] # s[j] }

\* HashMap.entries() visited in the order ks
EntriesIn(m, ks) == [i \in 1 .. Len(ks) |-> <<ks[i], m[ks[i]]>>]

RECURSIVE SelectIn(_, _)
\* Iter.filter followed by Iter.toArray over keys: keeps the visiting order
SelectIn(ks, S) ==
  IF ks = <<>> THEN <<>>
  ELSE (IF Head(ks) \in S THEN <<Head(ks)>> ELSE <<>>) \o SelectIn(Tail(ks), S)

\* The orders in which entries() can visit the map m2 that an operation has
\* made of the map m visited in the order l: removing keys leaves the others
\* in their order, a put may rebuild the table and gives no order
LayoutsAfter(l, m, m2) ==
  IF m2 = m THEN { l }
  ELSE IF DOMAIN m2 \subseteq DOMAIN m /\ \A k \in DOMAIN m2 : m2[k] = m[k]
       THEN { SelectIn(l, DOMAIN m2) }
       ELSE KeyOrders(DOMAIN m2)

\* Variant: the mapping starts at the second entry
TasksOf_SkipFirst(es) == [i \in 1 .. Len(es) - 1 |-> es[i + 1][2]]

\* Iter.map to the task of each entry
TasksOf(es) == [i \in 1 .. Len(es) |-> es[i][2]]

RECURSIVE SumOver(_, _)
\* The number of comments held by the records under the keys S of m
SumOver(m, S) ==
  IF S = {} THEN 0
  ELSE LET k == CHOOSE x \in S : TRUE
       IN Len(m[k].comments) + SumOver(m, S \ {k})

\* --------------------------------------------------------------- requests
Request(name, caller, id, text, flag) ==
  [name |-> name, caller |-> caller, id |-> id, text |-> text, flag |-> flag]

NoRequest == Request("init", <<>>, 0, "", FALSE)

\* A slot of the page without a handler run
NoRun == [kind |-> "none", id |-> 0, text |-> <<>>, pc |-> "none", reply |-> 0]

\* The page right after it is loaded: the useState initial values of
\* AuthProvider and TodoAppEnhanced, initializeAuth started by the mount
\* effect and waiting for AuthClient.create(); session tells whether the
\* browser holds a valid delegation
FreshFront(session) ==
  [ session         |-> session,
    authClient      |-> FALSE,
    isAuthenticated |-> FALSE,
    backendActor    |-> FALSE,
    loading         |-> TRUE,
    run             |-> "create",
    tasks           |-> <<>>,
    uiLoading       |-> TRUE,
    adding          |-> FALSE,
    toggling        |-> {},
    deleting        |-> {},
    faulted         |-> FALSE,
    slot            |-> [s \in 1 .. MaxCalls |-> NoRun] ]

\* What a query step records of the step before it: <<ret>>, the answer then
\* given, when that step was the same query by the same caller with the
\* same arguments, and <<>> otherwise
LastAnswer(name, caller, id, flag) ==
  IF op.name = name /\ op.caller = caller /\ op.id = id /\ op.flag = flag
  THEN <<ret>> ELSE <<>>

\* A slot without a call, and the slots when nothing is in flight
NoCall == [status |-> "idle", name |-> "", caller |-> <<>>, id |-> 0, text |-> <<>>,
           pc |-> 0, local |-> 0, result |-> 0]

NoCalls == [base |-> [tasks |-> EmptyMap, nextTaskId |-> 1],
            slot |-> [s \in 1 .. MaxCalls |-> NoCall]]

Init ==
  /\ tasks = EmptyMap
  /\ layout = <<>>
  /\ nextTaskId = 1
  /\ tasksEntries = <<>>
  /\ phase = "running"
  /\ now = 0
  /\ issued = {}
  /\ keys = <<>>
  /\ calls = NoCalls
  /\ front = FreshFront(FALSE)
  /\ toggled = <<>>
  /\ before = Snapshot
  /\ op = NoRequest
  /\ ret = 0

\* Time.now() never goes backwards
Tick ==
  /\ now < MaxTime
  /\ now' = now + 1
  /\ op' = Request("tick", <<>>, 0, "", FALSE)
  /\ before' = Snapshot
  /\ ret' = 0
  /\ toggled' = <<>>
  /\ UNCHANGED <<front, layout, keys, calls, tasks, nextTaskId, tasksEntries, phase, issued>>

\* Variant: title and description change places in the new record
NewTask_SwapText(caller, taskId, title, description, time) ==
  [ id          |-> taskId,
    title       |-> description,
    description |-> title,
    completed   |-> FALSE,
    createdAt   |-> time,
    owner       |-> caller,
    comments    |-> <<>> ]

\* The record addTask builds
NewTask(caller, taskId, title, description, time) ==
  [ id          |-> taskId,
    title       |-> title,
    description |-> description,
    completed   |-> FALSE,
    createdAt   |-> time,
    owner       |-> caller,
    comments    |-> <<>> ]

\* Variant: the counter is not advanced
NextId_Same(n) == n

\* Variant: the counter has a fixed width and wraps around to its first value
NextId_Wrap(n) == IF n >= MaxId THEN 1 ELSE n + 1

\* nextTaskId += 1
NextId(n) == n + 1

\* Variant: the id is taken from the number of stored records
addTask_SizeId(caller, title, description) ==
  /\ phase = "running"
  /\ nextTaskId <= MaxId
  /\ LET taskId == Cardinality(DOMAIN tasks) + 1
         taskKey == makeTaskKey(caller, taskId)
     IN /\ tasks' = Put(tasks, taskKey, NewTask(caller, taskId, title, description, now))
        /\ nextTaskId' = NextId(nextTaskId)
        /\ ret' = taskId
        /\ issued' = issued \cup { <<caller, taskId>> }
  /\ op' = Request("addTask", caller, 0, <<title, description>>, op.name = "postupgrade")
  /\ before' = Snapshot
  /\ toggled' = <<>>
  /\ layout' \in LayoutsAfter(layout, tasks, tasks')
  /\ UNCHANGED <<front, keys, calls, tasksEntries, phase, now>>

\* Variant: every owner has a counter of its own
addTask_PerOwnerId(caller, title, description) ==
  /\ phase = "running"
  /\ nextTaskId <= MaxId
  /\ LET taskId == Cardinality({ p \in issued : p[1] = caller }) + 1
         taskKey == makeTaskKey(caller, taskId)
     IN /\ tasks' = Put(tasks, taskKey, NewTask(caller, taskId, title, description, now))
        /\ nextTaskId' = NextId(nextTaskId)
        /\ ret' = taskId
        /\ issued' = issued \cup { <<caller, taskId>> }
  /\ op' = Request("addTask", caller, 0, <<title, description>>, op.name = "postupgrade")
  /\ before' = Snapshot
  /\ toggled' = <<>>
  /\ layout' \in LayoutsAfter(layout, tasks, tasks')
  /\ UNCHANGED <<front, keys, calls, tasksEntries, phase, now>>

\* The flag of an addTask step records whether the step before it was
\* postupgrade (the request is the first one served after an upgrade).
addTask(caller, title, description) ==
  /\ phase = "running"
  /\ nextTaskId <= MaxId
  /\ LET taskId == nextTaskId
         taskKey == makeTaskKey(caller, taskId)
     IN /\ tasks' = Put(tasks, taskKey, NewTask(caller, taskId, title, description, now))
        /\ nextTaskId' = NextId(nextTaskId)
        /\ ret' = taskId
        /\ issued' = issued \cup { <<caller, taskId>> }
  /\ op' = Request("addTask", caller, 0, <<title, description>>, op.name = "postupgrade")
  /\ before' = Snapshot
  /\ toggled' = <<>>
  /\ layout' \in LayoutsAfter(layout, tasks, tasks')
  /\ UNCHANGED <<front, keys, calls, tasksEntries, phase, now>>

\* Variant: no owner filter, every key passes
KeysWithPrefix_All(m, userPrefix) == DOMAIN m

\* The keys the owner-prefix filter of getTasks, getTaskCount,
\* getTasksByStatus and clearCompletedTasks lets through
KeysWithPrefix(m, userPrefix) == { k \in DOMAIN m : StartsWith(k, userPrefix) }

\* The array getTasks returns to caller from the map m visited in the order l
TasksAt(m, l, caller) ==
  LET userPrefix == makeUserPrefix(caller)
      userKeys == KeysWithPrefix(m, userPrefix)
  IN TasksOf(EntriesIn(m, SelectIn(l, userKeys)))

\* The arrays getTasks can return to caller from the map m, one for each
\* order in which the iteration can visit the entries
TasksFor(m, caller) == { TasksAt(m, l, caller) : l \in KeyOrders(DOMAIN m) }

getTasks(caller) ==
  /\ phase = "running"
  /\ ret' = TasksAt(tasks, layout, caller)
  /\ op' = Request("getTasks", caller, 0, LastAnswer("getTasks", caller, 0, FALSE), FALSE)
  /\ before' = Snapshot
  /\ toggled' = <<>>
  /\ UNCHANGED <<front, layout, keys, calls, tasks, nextTaskId, tasksEntries, phase, now, issued>>

\* tasks.get(taskKey) as getTaskById returns it from the map m; ?Task is
\* modelled as a sequence of length at most one
TaskById(m, caller, id) ==
  LET taskKey == makeTaskKey(caller, id)
  IN IF taskKey \in DOMAIN m THEN <<m[taskKey]>> ELSE <<>>

\* Variant: the record is taken out with tasks.remove instead of tasks.get
getTaskById_Remove(caller, id) ==
  /\ phase = "running"
  /\ ret' = TaskById(tasks, caller, id)
  /\ tasks' = Remove(tasks, makeTaskKey(caller, id))
  /\ layout' \in LayoutsAfter(layout, tasks, tasks')
  /\ op' = Request("getTaskById", caller, id, LastAnswer("getTaskById", caller, id, FALSE),
                   FALSE)
  /\ before' = Snapshot
  /\ toggled' = <<>>
  /\ UNCHANGED <<front, keys, calls, nextTaskId, tasksEntries, phase, now, issued>>

getTaskById(caller, id) ==
  /\ phase = "running"
  /\ ret' = TaskById(tasks, caller, id)
  /\ op' = Request("getTaskById", caller, id, LastAnswer("getTaskById", caller, id, FALSE),
                   FALSE)
  /\ before' = Snapshot
  /\ toggled' = <<>>
  /\ UNCHANGED <<front, layout, keys, calls, tasks, nextTaskId, tasksEntries, phase, now, issued>>

\* Variant: the record is marked completed instead of flipped
ToggledTask_SetCompleted(existingTask) == [existingTask EXCEPT !.completed = TRUE]

\* Variant: title and description change places in the record written back
ToggledTask_SwapText(existingTask) ==
  [ id          |-> existingTask.id,
    title       |-> existingTask.description,
    description |-> existingTask.title,
    completed   |-> ~ existingTask.completed,
    createdAt   |-> existingTask.createdAt,
    owner       |-> existingTask.owner,
    comments    |-> existingTask.comments ]

\* Variant: the record written back is stamped with the time of the call
ToggledTask_Restamp(existingTask) ==
  [ id          |-> existingTask.id,
    title       |-> existingTask.title,
    description |-> existingTask.description,
    completed   |-> ~ existingTask.completed,
    createdAt   |-> now,
    owner       |-> existingTask.owner,
    comments    |-> existingTask.comments ]

\* The record toggleStatus writes back
ToggledTask(existingTask) ==
  [ id          |-> existingTask.id,
    title       |-> existingTask.title,
    description |-> existingTask.description,
    completed   |-> ~ existingTask.completed,
    createdAt   |-> existingTask.createdAt,
    owner       |-> existingTask.owner,
    comments    |-> existingTask.comments ]

\* toggled after a successful toggleStatus of the record found: a run of
\* such calls by one caller on one id keeps the last two records found
ToggledAfter(caller, id, found) ==
  IF op.name = "toggleStatus" /\ op.caller = caller /\ op.id = id /\ toggled # <<>>
  THEN <<toggled[Len(toggled)], found>>
  ELSE <<found>>

toggleStatus(caller, id) ==
  /\ phase = "running"
  /\ LET taskKey == makeTaskKey(caller, id)
     IN IF taskKey \notin DOMAIN tasks
        THEN /\ ret' = FALSE
             /\ tasks' = tasks
             /\ toggled' = <<>>
        ELSE /\ tasks' = Put(tasks, taskKey, ToggledTask(tasks[taskKey]))
             /\ ret' = TRUE
             /\ toggled' = ToggledAfter(caller, id, tasks[taskKey])
  /\ op' = Request("toggleStatus", caller, id, "", FALSE)
  /\ before' = Snapshot
  /\ layout' \in LayoutsAfter(layout, tasks, tasks')
  /\ UNCHANGED <<front, keys, calls, nextTaskId, tasksEntries, phase, now, issued>>

\* Variant: the result of remove is not inspected
RemoveResult_True(m, k) == TRUE

\* switch (tasks.remove(taskKey)) { case null { false }; case (?_) { true } }
RemoveResult(m, k) == k \in DOMAIN m

deleteTask(caller, id) ==
  /\ phase = "running"
  /\ LET taskKey == makeTaskKey(caller, id)
     IN /\ tasks' = Remove(tasks, taskKey)
        /\ ret' = RemoveResult(tasks, taskKey)
  /\ op' = Request("deleteTask", caller, id, "",
                   /\ op.name = "deleteTask"
                   /\ op.caller = caller /\ op.id = id
                   /\ ret = TRUE)
  /\ before' = Snapshot
  /\ toggled' = <<>>
  /\ layout' \in LayoutsAfter(layout, tasks, tasks')
  /\ UNCHANGED <<front, keys, calls, nextTaskId, tasksEntries, phase, now, issued>>

\* Variant: the size of the whole map, as before tasks had owners
TaskCount_Size(m, caller) == Cardinality(DOMAIN m)

\* The count getTaskCount keeps over the caller's entries of the map m
TaskCount(m, caller) ==
  LET userPrefix == makeUserPrefix(caller)
  IN Cardinality(KeysWithPrefix(m, userPrefix))

getTaskCount(caller) ==
  /\ phase = "running"
  /\ ret' = TaskCount(tasks, caller)
  /\ op' = Request("getTaskCount", caller, 0, LastAnswer("getTaskCount", caller, 0, FALSE),
                   FALSE)
  /\ before' = Snapshot
  /\ toggled' = <<>>
  /\ UNCHANGED <<front, layout, keys, calls, tasks, nextTaskId, tasksEntries, phase, now, issued>>

\* Variant: the filter keeps the completed tasks whatever status is asked for
StatusMatches_Completed(task, completed) == task.completed

\* task.completed == completed
StatusMatches(task, completed) == task.completed = completed

\* The array getTasksByStatus returns to caller from the map m visited in
\* the order l
TasksByStatusAt(m, l, caller, completed) ==
  LET userPrefix == makeUserPrefix(caller)
      matching == { k \in KeysWithPrefix(m, userPrefix) :
                      StatusMatches(m[k], completed) }
  IN TasksOf(EntriesIn(m, SelectIn(l, matching)))

\* The arrays getTasksByStatus can return to caller from the map m
TasksByStatus(m, caller, completed) ==
  { TasksByStatusAt(m, l, caller, completed) : l \in KeyOrders(DOMAIN m) }

getTasksByStatus(caller, completed) ==
  /\ phase = "running"
  /\ ret' = TasksByStatusAt(tasks, layout, caller, completed)
  /\ op' = Request("getTasksByStatus", caller, 0,
                   LastAnswer("getTasksByStatus", caller, 0, completed), completed)
  /\ before' = Snapshot
  /\ toggled' = <<>>
  /\ UNCHANGED <<front, layout, keys, calls, tasks, nextTaskId, tasksEntries, phase, now, issued>>

RECURSIVE ClearLoop(_, _, _)
\* The for loop of clearCompletedTasks over the filtered keys ks:
\* removes each key and counts it; yields <<map, deletedCount>>
ClearLoop(m, ks, deletedCount) ==
  IF ks = <<>> THEN <<m, deletedCount>>
  ELSE ClearLoop(Remove(m, Head(ks)), Tail(ks), deletedCount + 1)

clearCompletedTasks(caller) ==
  /\ phase = "running"
  /\ LET userPrefix == makeUserPrefix(caller)
         completedKeys == { k \in KeysWithPrefix(tasks, userPrefix) :
                              tasks[k].completed }
         r == ClearLoop(tasks, SelectIn(layout, completedKeys), 0)
     IN /\ tasks' = r[1]
        /\ ret' = r[2]
  /\ op' = Request("clearCompletedTasks", caller, 0, "", FALSE)
  /\ before' = Snapshot
  /\ toggled' = <<>>
  /\ layout' \in LayoutsAfter(layout, tasks, tasks')
  /\ UNCHANGED <<front, keys, calls, nextTaskId, tasksEntries, phase, now, issued>>

getMyPrincipal(caller) ==
  /\ phase = "running"
  /\ ret' = caller
  /\ op' = Request("getMyPrincipal", caller, 0,
                   LastAnswer("getMyPrincipal", caller, 0, FALSE), FALSE)
  /\ before' = Snapshot
  /\ toggled' = <<>>
  /\ UNCHANGED <<front, layout, keys, calls, tasks, nextTaskId, tasksEntries, phase, now, issued>>

\* addComment and getComments are declared in the service interface; their
\* bodies follow the store's description: exact-key lookup, append, flag.

\* Variant: the new text is put in front
AppendComment_Front(comments, text) == <<text>> \o comments

\* The comments of a task once text has been added
AppendComment(comments, text) == Append(comments, text)

addComment(caller, id, text) ==
  /\ phase = "running"
  /\ LET taskKey == makeTaskKey(caller, id)
     IN IF taskKey \notin DOMAIN tasks
        THEN /\ ret' = FALSE
             /\ tasks' = tasks
        ELSE /\ SumOver(tasks, DOMAIN tasks) < MaxComments
             /\ tasks' = Put(tasks, taskKey,
                             [tasks[taskKey] EXCEPT !.comments = AppendComment(@, text)])
             /\ ret' = TRUE
  /\ op' = Request("addComment", caller, id, text, FALSE)
  /\ before' = Snapshot
  /\ toggled' = <<>>
  /\ layout' \in LayoutsAfter(layout, tasks, tasks')
  /\ UNCHANGED <<front, keys, calls, nextTaskId, tasksEntries, phase, now, issued>>

\* Variant: the comments are looked up by the id alone
CommentsOf_AnyOwner(m, caller, id) ==
  IF \E k \in DOMAIN m : m[k].id = id
  THEN m[CHOOSE k \in DOMAIN m : m[k].id = id].comments
  ELSE <<>>

\* The comments getComments returns to caller for id from the map m
CommentsOf(m, caller, id) ==
  LET taskKey == makeTaskKey(caller, id)
  IN IF taskKey \in DOMAIN m THEN m[taskKey].comments ELSE <<>>

getComments(caller, id) ==
  /\ phase = "running"
  /\ ret' = CommentsOf(tasks, caller, id)
  /\ op' = Request("getComments", caller, id, "", FALSE)
  /\ before' = Snapshot
  /\ toggled' = <<>>
  /\ UNCHANGED <<front, layout, keys, calls, tasks, nextTaskId, tasksEntries, phase, now, issued>>

\* ---------------------------------------------------------------- upgrade
\* Variant: each pair is stored under the task's id alone
EntriesArray_ById(m, ks) == [i \in 1 .. Len(ks) |-> <<NatToText(m[ks[i]].id), m[ks[i]]>>]

\* Iter.toArray(tasks.entries()), the iteration visiting the keys in order ks
EntriesArray(m, ks) == EntriesIn(m, ks)

preupgrade ==
  /\ phase = "running"
  /\ tasksEntries' = EntriesArray(tasks, layout)
  /\ phase' = "upgrading"
  /\ op' = Request("preupgrade", <<>>, 0, "", FALSE)
  /\ before' = Snapshot
  /\ ret' = 0
  /\ toggled' = <<>>
  /\ UNCHANGED <<front, layout, keys, calls, tasks, nextTaskId, now, issued>>

RECURSIVE Rebuild(_, _)
\* The for loop of postupgrade: put every pair of es into m
Rebuild(m, es) ==
  IF es = <<>> THEN m
  ELSE Rebuild(Put(m, Head(es)[1], Head(es)[2]), Tail(es))

\* Variant: the counter is not stable and starts again from its initial value
postupgrade_ResetCounter ==
  /\ phase = "upgrading"
  /\ tasks' = Rebuild(EmptyMap, tasksEntries)
  /\ tasksEntries' = <<>>
  /\ nextTaskId' = 1
  /\ phase' = "running"
  /\ op' = Request("postupgrade", <<>>, 0, "", FALSE)
  /\ before' = Snapshot
  /\ ret' = 0
  /\ toggled' = <<>>
  /\ layout' \in KeyOrders(DOMAIN tasks')
  /\ UNCHANGED <<front, keys, calls, now, issued>>

\* The new actor instance starts from a fresh map (the heap of the old
\* instance is gone) and refills it from the stable array only.
postupgrade ==
  /\ phase = "upgrading"
  /\ tasks' = Rebuild(EmptyMap, tasksEntries)
  /\ tasksEntries' = <<>>
  /\ phase' = "running"
  /\ op' = Request("postupgrade", <<>>, 0, "", FALSE)
  /\ before' = Snapshot
  /\ ret' = 0
  /\ toggled' = <<>>
  /\ layout' \in KeyOrders(DOMAIN tasks')
  /\ UNCHANGED <<front, keys, calls, nextTaskId, now, issued>>

\* The operations of the actor in main.mo and its upgrade
Next ==
  \/ \E c \in Owners, t \in Titles, d \in Descriptions : addTask(c, t, d)
  \/ \E c \in Owners : getTasks(c)
  \/ \E c \in Owners, i \in 1 .. nextTaskId : getTaskById(c, i)
  \/ \E c \in Owners, i \in 1 .. nextTaskId : toggleStatus(c, i)
  \/ \E c \in Owners, i \in 1 .. nextTaskId : deleteTask(c, i)
  \/ \E c \in Owners : getTaskCount(c)
  \/ \E c \in Owners, b \in BOOLEAN : getTasksByStatus(c, b)
  \/ \E c \in Owners : clearCompletedTasks(c)
  \/ \E c \in Owners : getMyPrincipal(c)
  \/ preupgrade
  \/ postupgrade

Spec == Init /\ [][Next]_vars

\* The same with the comment operations of the service interface
NextComments ==
  \/ Next
  \/ \E c \in Owners, i \in 1 .. nextTaskId, x \in Texts : addComment(c, i, x)
  \/ \E c \in Owners, i \in 1 .. nextTaskId : getComments(c, i)

SpecComments == Init /\ [][NextComments]_vars

\* The same with the clock advancing between requests
NextClock ==
  \/ Next
  \/ Tick

SpecClock == Init /\ [][NextClock]_vars

\* Every operation of the service, with the clock advancing
NextAll == NextComments \/ Tick

SpecAll == Init /\ [][NextAll]_vars

\* ------------------------------------------ restart without the stable data
\* An upgrade in which the stable store handed to the new instance lacks
\* nextTaskId (lostCounter) or tasksEntries (lostEntries): a stable variable
\* with no stored value takes its declared initial value, 1 and [], and
\* postupgrade then runs as usual.
postupgradeAfterLoss(lostCounter, lostEntries) ==
  /\ phase = "upgrading"
  /\ lostCounter \/ lostEntries
  /\ nextTaskId' = IF lostCounter THEN 1 ELSE nextTaskId
  /\ tasks' = Rebuild(EmptyMap, IF lostEntries THEN <<>> ELSE tasksEntries)
  /\ tasksEntries' = <<>>
  /\ phase' = "running"
  /\ op' = Request("postupgradeAfterLoss", <<>>, 0, "", FALSE)
  /\ before' = Snapshot
  /\ ret' = 0
  /\ toggled' = <<>>
  /\ layout' \in KeyOrders(DOMAIN tasks')
  /\ UNCHANGED <<front, keys, calls, now, issued>>

\* The requests that show what a restart kept, the upgrade and the restart
\* without the stable data
NextLoss ==
  \/ \E c \in Owners, t \in Titles, d \in Descriptions : addTask(c, t, d)
  \/ \E c \in Owners : getTasks(c)
  \/ \E c \in Owners, i \in 1 .. nextTaskId : toggleStatus(c, i)
  \/ \E c \in Owners, i \in 1 .. nextTaskId : deleteTask(c, i)
  \/ preupgrade
  \/ postupgrade
  \/ \E lostCounter, lostEntries \in BOOLEAN : postupgradeAfterLoss(lostCounter, lostEntries)

SpecLoss == Init /\ [][NextLoss]_vars

\* makeTaskKey applied on its own to an owner and an id; keys keeps the
\* last two applications
callMakeTaskKey(owner, taskId) ==
  /\ keys' = LET call == [owner |-> owner, taskId |-> taskId,
                          key |-> makeTaskKey(owner, taskId)]
             IN IF keys = <<>> THEN <<call>> ELSE <<keys[Len(keys)], call>>
  /\ UNCHANGED <<front, layout, tasks, nextTaskId, tasksEntries, phase, now, issued, calls, toggled,
                 before, op, ret>>

NextKey == \E owner \in KeyOwners, taskId \in KeyIds : callMakeTaskKey(owner, taskId)

SpecKey == Init /\ [][NextKey]_vars

\* ------------------------------------------------- update calls in flight
\* The bodies of the update methods statement by statement. A call c holds
\* the position pc reached in its body and the value local its body has
\* computed so far; st is the store [tasks, nextTaskId].
Store == [tasks |-> tasks, nextTaskId |-> nextTaskId]

Finished(c, result) == [c EXCEPT !.status = "done", !.result = result]

\* addTask: let taskId = nextTaskId; tasks.put(taskKey, newTask);
\* nextTaskId += 1; taskId
addTaskStep(st, c) ==
  CASE c.pc = 1 -> <<st, [c EXCEPT !.local = st.nextTaskId, !.pc = 2]>>
    [] c.pc = 2 -> <<[st EXCEPT !.tasks = Put(@, makeTaskKey(c.caller, c.local),
                                              NewTask(c.caller, c.local, c.text[1],
                                                      c.text[2], now))],
                     [c EXCEPT !.pc = 3]>>
    [] c.pc = 3 -> <<[st EXCEPT !.nextTaskId = NextId(@)], Finished(c, c.local)>>

\* toggleStatus: switch (tasks.get(taskKey)); tasks.put(taskKey, updatedTask)
toggleStatusStep(st, c) ==
  LET taskKey == makeTaskKey(c.caller, c.id)
  IN CASE c.pc = 1 -> IF taskKey \notin DOMAIN st.tasks
                      THEN <<st, Finished(c, FALSE)>>
                      ELSE <<st, [c EXCEPT !.local = st.tasks[taskKey], !.pc = 2]>>
       [] c.pc = 2 -> <<[st EXCEPT !.tasks = Put(@, taskKey, ToggledTask(c.local))],
                        Finished(c, TRUE)>>

\* deleteTask: switch (tasks.remove(taskKey))
deleteTaskStep(st, c) ==
  LET taskKey == makeTaskKey(c.caller, c.id)
  IN <<[st EXCEPT !.tasks = Remove(@, taskKey)], Finished(c, RemoveResult(st.tasks, taskKey))>>

\* clearCompletedTasks: one turn of the for loop over the filtered entries
\* (the next entry of the caller that is completed is removed and counted),
\* or the end of the loop; local is deletedCount
clearCompletedTasksStep(st, c) ==
  LET completedKeys == { k \in KeysWithPrefix(st.tasks, makeUserPrefix(c.caller)) :
                           st.tasks[k].completed }
      deletedCount == IF c.pc = 1 THEN 0 ELSE c.local
  IN IF completedKeys = {}
     THEN <<st, Finished(c, deletedCount)>>
     ELSE <<[st EXCEPT !.tasks = Remove(@, CHOOSE k \in completedKeys : TRUE)],
            [c EXCEPT !.local = deletedCount + 1, !.pc = 2]>>

\* The next statement of the call c on the store st: <<store, call>> after it
StepOf(st, c) ==
  CASE c.name = "addTask" -> addTaskStep(st, c)
    [] c.name = "toggleStatus" -> toggleStatusStep(st, c)
    [] c.name = "deleteTask" -> deleteTaskStep(st, c)
    [] c.name = "clearCompletedTasks" -> clearCompletedTasksStep(st, c)

RECURSIVE RunToEnd(_, _)
\* The body of the call c run from its current position to its end
RunToEnd(st, c) ==
  IF c.status = "done" THEN <<st, c>>
  ELSE LET r == StepOf(st, c) IN RunToEnd(r[1], r[2])

\* Variant: a message is started while another is in the middle of its body
MayStart_Always == TRUE

\* None of the bodies has an await, so a message runs from its first
\* statement to its last before the actor starts the next one
MayStart == \A s \in 1 .. MaxCalls : calls.slot[s].status # "running"

\* The addTask calls in flight that have not taken their id yet
AddsAhead ==
  Cardinality({ s \in 1 .. MaxCalls :
                  /\ calls.slot[s].name = "addTask"
                  /\ calls.slot[s].status \in {"pending", "running"} })

\* A caller sends an update call; it waits in slot s, the first free one
submit(s, name, caller, id, text) ==
  /\ phase = "running"
  /\ calls.slot[s].status = "idle"
  /\ \A x \in 1 .. s - 1 : calls.slot[x].status # "idle"
  /\ name = "addTask" => nextTaskId + AddsAhead <= MaxId
  /\ calls' = [ base |-> IF \A x \in 1 .. MaxCalls : calls.slot[x].status = "idle"
                         THEN Store ELSE calls.base,
                slot |-> [calls.slot EXCEPT ![s] =
                            [NoCall EXCEPT !.status = "pending", !.name = name,
                                           !.caller = caller, !.id = id,
                                           !.text = text, !.pc = 1]] ]
  /\ UNCHANGED <<front, layout, tasks, nextTaskId, tasksEntries, phase, now, issued, keys, toggled,
                 before, op, ret>>

\* The call in slot s executes its next statement
execute(s) ==
  /\ phase = "running"
  /\ \/ calls.slot[s].status = "running"
     \/ calls.slot[s].status = "pending" /\ MayStart
  /\ LET r == StepOf(Store, [calls.slot[s] EXCEPT !.status = "running"])
     IN /\ tasks' = r[1].tasks
        /\ nextTaskId' = r[1].nextTaskId
        /\ calls' = [calls EXCEPT !.slot[s] = r[2]]
  /\ layout' \in LayoutsAfter(layout, tasks, tasks')
  /\ UNCHANGED <<front, tasksEntries, phase, now, issued, keys, toggled, before, op, ret>>

\* The replies have been delivered; the slots are free again
deliver ==
  /\ \A s \in 1 .. MaxCalls : calls.slot[s].status = "done"
  /\ calls' = [calls EXCEPT !.slot = [s \in 1 .. MaxCalls |-> NoCall]]
  /\ UNCHANGED <<front, layout, tasks, nextTaskId, tasksEntries, phase, now, issued, keys, toggled,
                 before, op, ret>>

NextCalls ==
  \/ \E s \in 1 .. MaxCalls, c \in Owners, t \in Titles, d \in Descriptions :
       submit(s, "addTask", c, 0, <<t, d>>)
  \/ \E s \in 1 .. MaxCalls, c \in Owners, i \in 1 .. nextTaskId + AddsAhead - 1 :
       \/ submit(s, "toggleStatus", c, i, <<>>)
       \/ submit(s, "deleteTask", c, i, <<>>)
  \/ \E s \in 1 .. MaxCalls, c \in Owners : submit(s, "clearCompletedTasks", c, 0, <<>>)
  \/ \E s \in 1 .. MaxCalls : execute(s)
  \/ deliver

SpecCalls == Init /\ [][NextCalls]_vars

\* ------------------------------------------------------------- the page
\* The browser page of one user. front holds the state of AuthProvider
\* (session: the browser holds a valid delegation; authClient, backendActor:
\* the state is not null; run: the await the auth function in flight is
\* waiting at), the state of TodoAppEnhanced (tasks, loadingStates, faulted:
\* a call of a handler has thrown since the component was mounted) and the
\* handler runs in flight, one in each slot.

\* The principal of the user of the page
User == <<"a">>

\* MainApp renders TodoAppEnhanced when the spinner and the login screen
\* are not rendered
Mounted(f) == ~f.loading /\ f.isAuthenticated

\* TodoAppEnhanced renders its list and buttons, not its own spinner
Visible(f) == Mounted(f) /\ ~f.uiLoading

\* No handler run is in flight
Idle(f) == \A s \in 1 .. MaxCalls : f.slot[s].kind = "none"

\* The state of TodoAppEnhanced when it is mounted
Unmounted(f) ==
  [f EXCEPT !.tasks = <<>>, !.uiLoading = TRUE, !.adding = FALSE,
            !.toggling = {}, !.deleting = {}, !.faulted = FALSE]

\* A handler run that has sent its first call
StartedRun(kind, id, text) ==
  [kind |-> kind, id |-> id, text |-> text, pc |-> "sent", reply |-> 0]

\* The page after AuthProvider went from the state f to the state f2: a
\* TodoAppEnhanced that was not rendered before is mounted with its initial
\* state and its effect calls loadTasks when there is an actor; one that is
\* not rendered any more has no state
Render(f, f2) ==
  IF Mounted(f2) /\ ~Mounted(f)
  THEN IF f2.backendActor
       THEN [Unmounted(f2) EXCEPT !.slot[1] = StartedRun("loadTasks", 0, <<>>)]
       ELSE Unmounted(f2)
  ELSE IF ~Mounted(f2) THEN Unmounted(f2) ELSE f2

\* What the steps of the page leave alone
aside == <<tasksEntries, phase, now, issued, keys, calls, toggled, before, op, ret>>

store == <<tasks, layout, nextTaskId>>

\* initializeAuth: AuthClient.create() has settled
authCreate(ok) ==
  /\ front.run = "create"
  /\ front' = IF ok
              THEN [front EXCEPT !.authClient = TRUE, !.run = "check"]
              ELSE Render(front, [front EXCEPT !.loading = FALSE, !.run = "none"])
  /\ UNCHANGED <<store, aside>>

\* initializeAuth: client.isAuthenticated() has settled
authCheck ==
  /\ front.run = "check"
  /\ front' = IF front.session
              THEN [front EXCEPT !.isAuthenticated = TRUE, !.run = "backend"]
              ELSE Render(front, [front EXCEPT !.isAuthenticated = FALSE,
                                               !.loading = FALSE, !.run = "none"])
  /\ UNCHANGED <<store, aside>>

\* initializeAuth and login: createAuthenticatedBackend has returned the
\* actor or has thrown; the inner catch only logs, the finally ends the run
AfterBackend(f, ok) ==
  IF ok
  THEN [f EXCEPT !.backendActor = TRUE, !.loading = FALSE, !.run = "none"]
  ELSE [f EXCEPT !.loading = FALSE, !.run = "none"]

authBackend(ok) ==
  /\ front.run = "backend"
  /\ front' = Render(front, AfterBackend(front, ok))
  /\ UNCHANGED <<store, aside>>

\* login, called from the login screen
login ==
  /\ front.run = "none"
  /\ ~front.loading
  /\ ~front.isAuthenticated
  /\ front.authClient
  /\ front' = [front EXCEPT !.loading = TRUE, !.run = "identity"]
  /\ UNCHANGED <<store, aside>>

\* login: the promise of authClient.login has settled
loginResult(ok) ==
  /\ front.run = "identity"
  /\ front' = IF ok
              THEN [front EXCEPT !.session = TRUE, !.isAuthenticated = TRUE,
                                 !.run = "backend"]
              ELSE Render(front, [front EXCEPT !.loading = FALSE, !.run = "none"])
  /\ UNCHANGED <<store, aside>>

\* logout, called from the header of TodoAppEnhanced
logout ==
  /\ front.run = "none"
  /\ Visible(front)
  /\ Idle(front)
  /\ front.authClient
  /\ front' = Render(front, [front EXCEPT !.loading = TRUE, !.run = "logout"])
  /\ UNCHANGED <<store, aside>>

\* logout: authClient.logout() has settled
logoutResult(ok) ==
  /\ front.run = "logout"
  /\ front' = IF ok
              THEN Render(front, [front EXCEPT !.session = FALSE,
                                               !.isAuthenticated = FALSE,
                                               !.backendActor = FALSE,
                                               !.loading = FALSE, !.run = "none"])
              ELSE Render(front, [front EXCEPT !.loading = FALSE, !.run = "none"])
  /\ UNCHANGED <<store, aside>>

\* The user loads the page again: the state of the page is lost, the
\* delegation in the browser is kept
reload ==
  /\ front.run = "none"
  /\ Idle(front)
  /\ front' = FreshFront(front.session)
  /\ UNCHANGED <<store, aside>>

\* loadTasks maps each record of the answer to the record the page keeps
FormatTask(task) ==
  [ id          |-> task.id,
    title       |-> task.title,
    description |-> task.description,
    completed   |-> task.completed,
    createdAt   |-> task.createdAt,
    owner       |-> task.owner ]

FormattedTasks(backendTasks) ==
  [i \in 1 .. Len(backendTasks) |-> FormatTask(backendTasks[i])]

\* The ids of the list the page shows
LocalIds(f) == { f.tasks[i].id : i \in 1 .. Len(f.tasks) }

\* The user can start a handler: the list is rendered, the handler has an
\* actor, and the run goes to slot s, the first free one
CanStart(s) ==
  /\ front.run = "none"
  /\ Visible(front)
  /\ front.backendActor
  /\ front.slot[s].kind = "none"
  /\ \A x \in 1 .. s - 1 : front.slot[x].kind # "none"

\* loadTasks, called from the Refresh button
clickRefresh(s) ==
  /\ CanStart(s)
  /\ Len(front.tasks) > 0
  /\ front' = [front EXCEPT !.uiLoading = TRUE,
                            !.slot[s] = StartedRun("loadTasks", 0, <<>>)]
  /\ UNCHANGED <<store, aside>>

\* The addTask runs whose call the canister has not executed yet
FrontAddsAhead ==
  Cardinality({ s \in 1 .. MaxCalls :
                  front.slot[s].kind = "addTask" /\ front.slot[s].pc = "sent" })

\* addTask of the page, with a title that passes the validation
clickAdd(s, title, description) ==
  /\ CanStart(s)
  /\ ~front.adding
  /\ nextTaskId + FrontAddsAhead <= MaxId
  /\ front' = [front EXCEPT !.adding = TRUE,
                            !.slot[s] = StartedRun("addTask", 0, <<title, description>>)]
  /\ UNCHANGED <<store, aside>>

\* toggleTaskComplete(id), from the checkbox of a task of the list
clickToggle(s, id) ==
  /\ CanStart(s)
  /\ id \in LocalIds(front)
  /\ id \notin front.toggling \cup front.deleting
  /\ front' = [front EXCEPT !.toggling = @ \cup {id},
                            !.slot[s] = StartedRun("toggleTaskComplete", id, <<>>)]
  /\ UNCHANGED <<store, aside>>

\* deleteTask(id) of the page, from the delete button of a task of the list
clickDelete(s, id) ==
  /\ CanStart(s)
  /\ id \in LocalIds(front)
  /\ id \notin front.toggling \cup front.deleting
  /\ front' = [front EXCEPT !.deleting = @ \cup {id},
                            !.slot[s] = StartedRun("deleteTask", id, <<>>)]
  /\ UNCHANGED <<store, aside>>

\* clearCompletedTasks of the page, confirmed in the dialog
clickClear(s) ==
  /\ CanStart(s)
  /\ \E i \in 1 .. Len(front.tasks) : front.tasks[i].completed
  /\ front' = [front EXCEPT !.slot[s] = StartedRun("clearCompletedTasks", 0, <<>>)]
  /\ UNCHANGED <<store, aside>>

\* The method of the canister a run is calling
MethodOf(run) ==
  CASE run.pc = "again" -> "getTasks"
    [] run.kind = "loadTasks" -> "getTasks"
    [] run.kind = "addTask" -> "addTask"
    [] run.kind = "toggleTaskComplete" -> "toggleStatus"
    [] run.kind = "deleteTask" -> "deleteTask"
    [] run.kind = "clearCompletedTasks" -> "clearCompletedTasks"

\* The run after the canister has answered its call
Answered(run, reply) ==
  [run EXCEPT !.pc = IF @ = "sent" THEN "answered" ELSE "reloaded", !.reply = reply]

\* The canister executes the call of the run in slot s
serve(s) ==
  /\ phase = "running"
  /\ front.slot[s].pc \in {"sent", "again"}
  /\ LET run == front.slot[s]
         name == MethodOf(run)
     IN IF name = "getTasks"
        THEN /\ front' = [front EXCEPT !.slot[s] =
                            Answered(run, TasksAt(tasks, layout, User))]
             /\ UNCHANGED store
        ELSE LET r == RunToEnd(Store, [NoCall EXCEPT !.status = "running", !.name = name,
                                                     !.caller = User, !.id = run.id,
                                                     !.text = run.text, !.pc = 1])
             IN /\ tasks' = r[1].tasks
                /\ nextTaskId' = r[1].nextTaskId
                /\ layout' \in LayoutsAfter(layout, tasks, tasks')
                /\ front' = [front EXCEPT !.slot[s] = Answered(run, r[2].result)]
  /\ UNCHANGED aside

\* The call of the run in slot s fails before the canister executes it
reject(s) ==
  /\ front.slot[s].pc \in {"sent", "again"}
  /\ front' = [front EXCEPT !.slot[s].pc = IF @ = "sent" THEN "thrown" ELSE "rethrown"]
  /\ UNCHANGED <<store, aside>>

\* The list with the completed flag of the task id inverted
Flipped(list, id) ==
  [i \in 1 .. Len(list) |->
     IF list[i].id = id THEN [list[i] EXCEPT !.completed = ~@] ELSE list[i]]

\* The list without the task id
Without(list, id) == SelectSeq(list, LAMBDA t : t.id # id)

\* Variant: the marker is removed at the end of the try block, not in a
\* finally block
Settled_NoFinally(f, run) ==
  IF run.pc \in {"thrown", "rethrown"} THEN f
  ELSE CASE run.kind = "loadTasks" -> [f EXCEPT !.uiLoading = FALSE]
         [] run.kind = "addTask" -> [f EXCEPT !.adding = FALSE]
         [] run.kind = "toggleTaskComplete" -> [f EXCEPT !.toggling = @ \ {run.id}]
         [] run.kind = "deleteTask" -> [f EXCEPT !.deleting = @ \ {run.id}]
         [] run.kind = "clearCompletedTasks" -> f

\* The finally block of the handler of the run
Settled(f, run) ==
  CASE run.kind = "loadTasks" -> [f EXCEPT !.uiLoading = FALSE]
    [] run.kind = "addTask" -> [f EXCEPT !.adding = FALSE]
    [] run.kind = "toggleTaskComplete" -> [f EXCEPT !.toggling = @ \ {run.id}]
    [] run.kind = "deleteTask" -> [f EXCEPT !.deleting = @ \ {run.id}]
    [] run.kind = "clearCompletedTasks" -> f

\* After the answer of their call addTask and clearCompletedTasks call
\* loadTasks and wait for it
Continues(run) ==
  /\ run.pc = "answered"
  /\ run.kind \in {"addTask", "clearCompletedTasks"}

\* What the handler does to the list with the answer of its call
Applied(f, run) ==
  CASE run.kind \in {"loadTasks", "addTask", "clearCompletedTasks"} -> f
    [] run.kind = "toggleTaskComplete" ->
         IF run.reply = TRUE THEN [f EXCEPT !.tasks = Flipped(@, run.id)] ELSE f
    [] run.kind = "deleteTask" ->
         IF run.reply = TRUE THEN [f EXCEPT !.tasks = Without(@, run.id)] ELSE f

\* The handler of the run in slot s continues after its await
respond(s) ==
  /\ front.slot[s].pc \in {"answered", "reloaded", "thrown", "rethrown"}
  /\ LET run == front.slot[s]
         free == [front EXCEPT !.slot[s] = NoRun]
     IN front' =
          CASE run.pc = "thrown" ->
                 Settled([free EXCEPT !.faulted = TRUE], run)
            [] run.pc = "rethrown" ->
                 Settled([free EXCEPT !.faulted = TRUE, !.uiLoading = FALSE], run)
            [] run.pc = "reloaded" ->
                 Settled([free EXCEPT !.tasks = FormattedTasks(run.reply),
                                      !.uiLoading = FALSE], run)
            [] run.pc = "answered" /\ run.kind = "loadTasks" ->
                 Settled([free EXCEPT !.tasks = FormattedTasks(run.reply)], run)
            [] run.pc = "answered" /\ Continues(run) ->
                 [front EXCEPT !.uiLoading = TRUE, !.slot[s].pc = "again"]
            [] OTHER -> Settled(Applied(free, run), run)
  /\ UNCHANGED <<store, aside>>

NextFront ==
  \/ \E ok \in BOOLEAN : authCreate(ok)
  \/ authCheck
  \/ \E ok \in BOOLEAN : authBackend(ok)
  \/ login
  \/ \E ok \in BOOLEAN : loginResult(ok)
  \/ logout
  \/ \E ok \in BOOLEAN : logoutResult(ok)
  \/ reload
  \/ \E s \in 1 .. MaxCalls : clickRefresh(s)
  \/ \E s \in 1 .. MaxCalls, t \in Titles, d \in Descriptions : clickAdd(s, t, d)
  \/ \E s \in 1 .. MaxCalls, i \in 1 .. MaxId : clickToggle(s, i) \/ clickDelete(s, i)
  \/ \E s \in 1 .. MaxCalls : clickClear(s)
  \/ \E s \in 1 .. MaxCalls : serve(s) \/ reject(s)
  \/ \E s \in 1 .. MaxCalls : respond(s)

SpecFront == Init /\ [][NextFront]_vars

\* Every promise a run of the page awaits settles: the auth client and the
\* agent resolve or reject each request, and a handler whose await has
\* settled runs on. Nothing makes the user click.
FairFront ==
  /\ WF_vars(\E ok \in BOOLEAN : authCreate(ok))
  /\ WF_vars(authCheck)
  /\ WF_vars(\E ok \in BOOLEAN : authBackend(ok))
  /\ WF_vars(\E ok \in BOOLEAN : loginResult(ok))
  /\ WF_vars(\E ok \in BOOLEAN : logoutResult(ok))
  /\ \A s \in 1 .. MaxCalls : WF_vars(serve(s) \/ reject(s))
  /\ \A s \in 1 .. MaxCalls : WF_vars(respond(s))

\* The steps of the page of a user who starts loadTasks, addTask and
\* clearCompletedTasks only when no handler is running, and toggles or
\* deletes a task only while nothing but toggles and deletes are running
NextMarkers ==
  \/ \E ok \in BOOLEAN : authCreate(ok)
  \/ authCheck
  \/ \E ok \in BOOLEAN : authBackend(ok)
  \/ login
  \/ \E ok \in BOOLEAN : loginResult(ok)
  \/ logout
  \/ \E ok \in BOOLEAN : logoutResult(ok)
  \/ reload
  \/ Idle(front) /\ \E s \in 1 .. MaxCalls : clickRefresh(s)
  \/ Idle(front) /\ \E s \in 1 .. MaxCalls, t \in Titles, d \in Descriptions :
                       clickAdd(s, t, d)
  \/ /\ \A x \in 1 .. MaxCalls :
          front.slot[x].kind \in {"none", "toggleTaskComplete", "deleteTask"}
     /\ \E s \in 1 .. MaxCalls, i \in 1 .. MaxId : clickToggle(s, i) \/ clickDelete(s, i)
  \/ Idle(front) /\ \E s \in 1 .. MaxCalls : clickClear(s)
  \/ \E s \in 1 .. MaxCalls : serve(s) \/ reject(s)
  \/ \E s \in 1 .. MaxCalls : respond(s)

SpecFrontFair == Init /\ [][NextMarkers]_vars /\ FairFront

\* ------------------------------------------------------------------ claims
\* The keys of the records of m whose owner field is c
OwnKeys(m, c) == { k \in DOMAIN m : m[k].owner = c }

\* The keys of the records of m whose owner field is c and whose id is i
OwnKeysWithId(m, c, i) == { k \in OwnKeys(m, c) : m[k].id = i }

\* The last step served a request of a caller
Served == op.caller \in Owners

\* What the queries return carries only records of the caller
QueryIsolation ==
  /\ op.name \in {"getTasks", "getTasksByStatus", "getTaskById"} =>
       \A i \in 1 .. Len(ret) : ret[i].owner = op.caller
  /\ op.name = "getTaskCount" => ret = Cardinality(OwnKeys(tasks, op.caller))
  /\ op.name = "getComments" =>
       \/ ret = <<>>
       \/ \E k \in OwnKeysWithId(tasks, op.caller, op.id) : ret = tasks[k].comments

\* The step taken for a caller left every record of every other owner in place
MutatorIsolation ==
  Served =>
    \A k \in DOMAIN before.tasks :
      before.tasks[k].owner # op.caller =>
        k \in DOMAIN tasks /\ tasks[k] = before.tasks[k]

\* C1 (Isolation): no operation invoked by caller A returns, counts, changes
\* or removes a record whose owner is another caller B, also when A passes
\* the id of one of B's records.
C1_Isolation == QueryIsolation /\ MutatorIsolation

\* A caller has just passed toggleStatus the id of another owner's record
C1_Witness ==
  /\ op.name = "toggleStatus"
  /\ ret = FALSE
  /\ \E k \in DOMAIN tasks : tasks[k].id = op.id /\ tasks[k].owner # op.caller

\* C2 (Uniqueness): addTask never returns to a caller an id it returned to
\* that caller before, and no two records of one owner carry the same id.
C2_Uniqueness ==
  /\ \A k1, k2 \in DOMAIN tasks :
       (tasks[k1].owner = tasks[k2].owner /\ tasks[k1].id = tasks[k2].id) => k1 = k2
  /\ op.name = "addTask" => <<op.caller, ret>> \notin before.issued

\* One owner has added two tasks, both still stored
C2_Witness ==
  /\ op.name = "addTask"
  /\ Cardinality(OwnKeys(tasks, op.caller)) >= 2

\* C3 (ids are never reused): every id addTask returns is strictly greater
\* than every id returned before, whoever the callers were and whatever was
\* deleted, cleared or upgraded in between.
C3_NeverReused ==
  op.name = "addTask" => \A p \in before.issued : ret > p[2]

\* addTask has returned an id after the record of an earlier id was removed
C3_Witness ==
  /\ op.name = "addTask"
  /\ \E p \in issued : p[2] < ret /\ \A k \in DOMAIN tasks : tasks[k].id # p[2]

\* C4 (durability round trip): preupgrade leaves the mapping as it is and
\* postupgrade rebuilds exactly the mapping that existed before: the same
\* keys and the same record under each key, hence the same query results
\* for every owner.
C4_RoundTrip ==
  op.name \in {"preupgrade", "postupgrade"} => tasks = before.tasks

\* An upgrade has just rebuilt a mapping holding records of two owners,
\* one of them completed
C4_Witness ==
  /\ op.name = "postupgrade"
  /\ \A c \in Owners : OwnKeys(tasks, c) # {}
  /\ \E k \in DOMAIN tasks : tasks[k].completed

\* C5 (the counter survives an upgrade): preupgrade and postupgrade leave
\* nextTaskId as it is, and the first addTask after an upgrade returns an id
\* strictly greater than every id returned before the upgrade.
C5_CounterSurvives ==
  /\ op.name \in {"preupgrade", "postupgrade"} => nextTaskId = before.nextTaskId
  /\ (op.name = "addTask" /\ op.flag) => \A p \in before.issued : ret > p[2]

\* The first addTask after an upgrade, an earlier id having been issued and
\* its task removed before the upgrade
C5_Witness ==
  /\ op.name = "addTask"
  /\ op.flag
  /\ \E p \in issued : p[2] < ret /\ \A k \in DOMAIN tasks : tasks[k].id # p[2]

\* C6 (not-found policy): toggleStatus, deleteTask and addComment called
\* with an id under which the caller has no record return false and leave
\* the mapping and nextTaskId as they were.
C6_NotFound ==
  ( /\ op.name \in {"toggleStatus", "deleteTask", "addComment"}
    /\ OwnKeysWithId(before.tasks, op.caller, op.id) = {} )
  => (ret = FALSE /\ tasks = before.tasks /\ nextTaskId = before.nextTaskId)

\* addComment has just been refused for an id that another owner's record carries
C6_Witness ==
  /\ op.name = "addComment"
  /\ ret = FALSE
  /\ \E k \in DOMAIN tasks : tasks[k].id = op.id /\ tasks[k].owner # op.caller

\* C7 (toggle symmetry): toggleStatus on a task of the caller returns true
\* and negates completed, leaving the other fields; after two such calls in
\* a row the record equals the record before the first.
C7_ToggleSymmetry ==
  op.name = "toggleStatus" =>
    \A k \in OwnKeysWithId(before.tasks, op.caller, op.id) :
      /\ ret = TRUE
      /\ k \in DOMAIN tasks
      /\ tasks[k] = [before.tasks[k] EXCEPT !.completed = ~ @]
      /\ toggled # <<>>
      /\ Len(toggled) = 2 => tasks[k] = toggled[1]

\* Two toggleStatus calls in a row on one task have both succeeded
C7_Witness ==
  /\ op.name = "toggleStatus"
  /\ ret = TRUE
  /\ Len(toggled) = 2

\* C8 (bulk clear): clearCompletedTasks by A returns the number of A's
\* completed records, removes exactly those and leaves every other record
\* (A's active ones and all records of other owners) unchanged; with no
\* completed record of A it returns 0 and changes nothing.
C8_BulkClear ==
  op.name = "clearCompletedTasks" =>
    LET done == { k \in OwnKeys(before.tasks, op.caller) : before.tasks[k].completed }
    IN /\ ret = Cardinality(done)
       /\ DOMAIN tasks = DOMAIN before.tasks \ done
       /\ \A k \in DOMAIN tasks : tasks[k] = before.tasks[k]

\* A clear has removed a record of the caller and kept another stored record
C8_Witness ==
  /\ op.name = "clearCompletedTasks"
  /\ ret >= 1
  /\ tasks # EmptyMap

\* The comments the last step must have left on the record under key k
CommentsAfterStep(k) ==
  IF /\ op.name = "addComment"
     /\ before.tasks[k].owner = op.caller
     /\ before.tasks[k].id = op.id
  THEN Append(before.tasks[k].comments, op.text)
  ELSE before.tasks[k].comments

\* C9 (append-only comments): a successful addComment appends its text to
\* the task's comments, no other step changes the comments of a task that
\* stays stored, and getComments returns the caller's task's comments in
\* the order they were added.
C9_AppendOnly ==
  /\ \A k \in DOMAIN tasks \cap DOMAIN before.tasks :
       tasks[k].comments = CommentsAfterStep(k)
  /\ (op.name = "addComment" /\ OwnKeysWithId(before.tasks, op.caller, op.id) # {})
       => ret = TRUE
  /\ op.name = "getComments" =>
       \/ \E k \in OwnKeysWithId(tasks, op.caller, op.id) : ret = tasks[k].comments
       \/ OwnKeysWithId(tasks, op.caller, op.id) = {} /\ ret = <<>>

\* getComments has returned two different texts, in the order they were added
C9_Witness ==
  /\ op.name = "getComments"
  /\ Len(ret) = 2
  /\ ret[1] # ret[2]

\* C10 (fatal startup corruption): a restart that finds the persisted
\* counter or the persisted entries missing does not bring the store up:
\* it is never running, with a reset counter or an empty mapping, right
\* after such a restart.
C10_RefusesToStart == ~ (op.name = "postupgradeAfterLoss" /\ phase = "running")
\* C11: makeTaskKey is injective: two applications return the same key only
\* when they were given the same owner and the same id
C11_KeyInjective ==
  \A i, j \in 1 .. Len(keys) :
    keys[i].key = keys[j].key
      => keys[i].owner = keys[j].owner /\ keys[i].taskId = keys[j].taskId

\* Two applications whose owner and id texts concatenate to the same text,
\* owner "a" with id 22 and owner "a2" with id 2, returned different keys
C11_Witness ==
  /\ Len(keys) = 2
  /\ keys[1].owner = <<"a">> /\ keys[1].taskId = 22
  /\ keys[2].owner = <<"a", "2">> /\ keys[2].taskId = 2
  /\ keys[1].key # keys[2].key

\* The elements of the sequence s
Range(s) == { s[i] : i \in 1 .. Len(s) }

\* No element occurs twice in the sequence s
NoDuplicates(s) == \A i, j \in 1 .. Len(s) : i # j => s[i] # s[j]

\* The records of m whose owner field is c
OwnRecords(m, c) == { m[k] : k \in OwnKeys(m, c) }

\* C12: getTasks returns exactly the caller's stored records (tasks the
\* caller added and that were not removed since), each once, and no record
\* of another owner, also when one owner's text is a prefix of another's
C12_GetTasksExact ==
  op.name = "getTasks" =>
    /\ Range(ret) = OwnRecords(tasks, op.caller)
    /\ NoDuplicates(ret)
    /\ Len(ret) = Cardinality(OwnKeys(tasks, op.caller))
    /\ \A i \in 1 .. Len(ret) : <<op.caller, ret[i].id>> \in issued

\* getTasks answered owner "a" with its one record while owner "ab", whose
\* text starts with "a", has a record too
C12_Witness ==
  /\ op.name = "getTasks" /\ op.caller = <<"a">>
  /\ Len(ret) = 1
  /\ \E k \in DOMAIN tasks : tasks[k].owner = <<"a", "b">>

\* C13: getTaskById(id) returns the record when a record with that id
\* exists and is owned by the caller, and otherwise (no such id, or the
\* record of another owner) the absent value
C13_GetTaskById ==
  op.name = "getTaskById" =>
    IF OwnKeysWithId(tasks, op.caller, op.id) # {}
    THEN /\ Len(ret) = 1
         /\ \E k \in OwnKeysWithId(tasks, op.caller, op.id) : ret[1] = tasks[k]
    ELSE ret = <<>>

\* getTaskById answered absent for an id stored under another owner
C13_Witness ==
  /\ op.name = "getTaskById"
  /\ ret = <<>>
  /\ \E k \in DOMAIN tasks : tasks[k].id = op.id /\ tasks[k].owner # op.caller

\* C14: a successful toggleStatus(id) changes only the completed flag of
\* the caller's record with that id: its other fields, every other record,
\* the set of keys and nextTaskId are as before the call
C14_ToggleFrame ==
  (op.name = "toggleStatus" /\ ret = TRUE) =>
    /\ DOMAIN tasks = DOMAIN before.tasks
    /\ nextTaskId = before.nextTaskId
    /\ OwnKeysWithId(before.tasks, op.caller, op.id) # {}
    /\ \A k \in DOMAIN before.tasks :
         IF k \in OwnKeysWithId(before.tasks, op.caller, op.id)
         THEN /\ tasks[k].id = before.tasks[k].id
              /\ tasks[k].title = before.tasks[k].title
              /\ tasks[k].description = before.tasks[k].description
              /\ tasks[k].createdAt = before.tasks[k].createdAt
              /\ tasks[k].owner = before.tasks[k].owner
              /\ tasks[k].comments = before.tasks[k].comments
              /\ tasks[k].completed # before.tasks[k].completed
         ELSE tasks[k] = before.tasks[k]

\* toggleStatus succeeded on a record that carries a comment while the
\* mapping holds a second record
C14_Witness ==
  /\ op.name = "toggleStatus" /\ ret = TRUE
  /\ Cardinality(DOMAIN tasks) = 2
  /\ \E k \in OwnKeysWithId(tasks, op.caller, op.id) : tasks[k].comments # <<>>

\* C15: deleteTask(id) returns true exactly when the caller owns a record
\* with that id; after a true result getTaskById(id) by the caller is
\* absent, the caller's getTaskCount() is one less, every other record is
\* unchanged, and the same call made again returns false
C15_Delete ==
  op.name = "deleteTask" =>
    /\ ret = (OwnKeysWithId(before.tasks, op.caller, op.id) # {})
    /\ ret =>
         /\ TaskById(tasks, op.caller, op.id) = <<>>
         /\ TaskCount(tasks, op.caller) = TaskCount(before.tasks, op.caller) - 1
         /\ DOMAIN tasks \subseteq DOMAIN before.tasks
         /\ \A k \in DOMAIN before.tasks \ OwnKeysWithId(before.tasks, op.caller, op.id) :
              k \in DOMAIN tasks /\ tasks[k] = before.tasks[k]
    /\ op.flag => ret = FALSE

\* deleteTask was repeated right after it had returned true, the mapping
\* still holding another record
C15_Witness ==
  /\ op.name = "deleteTask" /\ op.flag
  /\ ret = FALSE
  /\ tasks # EmptyMap

\* C16: in every state and for every caller getTaskCount() equals the
\* number of records getTasks() returns, and for an owner without records
\* getTasks and getTasksByStatus return the empty array and getTaskCount
\* returns zero
C16_CountMatches ==
  /\ \A c \in Owners :
       /\ TasksFor(tasks, c) # {}
       /\ \A r \in TasksFor(tasks, c) : Len(r) = TaskCount(tasks, c)
  /\ (op.name = "getTaskCount" /\ Served) =>
       /\ \A r \in TasksFor(tasks, op.caller) : ret = Len(r)
       /\ OwnKeys(tasks, op.caller) = {} => ret = 0
  /\ (op.name \in {"getTasks", "getTasksByStatus"} /\ Served) =>
       (OwnKeys(tasks, op.caller) = {} => ret = <<>>)

\* getTaskCount answered zero to an owner without records while the
\* mapping holds a record of another owner
C16_Witness ==
  /\ op.name = "getTaskCount"
  /\ ret = 0
  /\ tasks # EmptyMap

\* C17: getTasksByStatus(c) returns exactly the caller's records whose
\* completed flag equals c, each once; in every state and for every caller
\* the results for true and for false share no record and together hold
\* exactly the records getTasks() returns
C17_ByStatus ==
  /\ op.name = "getTasksByStatus" =>
       /\ Range(ret) = { t \in OwnRecords(tasks, op.caller) : t.completed = op.flag }
       /\ NoDuplicates(ret)
  /\ \A c \in Owners :
       \A done \in TasksByStatus(tasks, c, TRUE), open \in TasksByStatus(tasks, c, FALSE),
          all \in TasksFor(tasks, c) :
            /\ Range(done) \cap Range(open) = {}
            /\ Range(done) \cup Range(open) = Range(all)
            /\ Len(done) + Len(open) = Len(all)

\* getTasksByStatus(false) answered with one of the caller's two records,
\* the other being completed
C17_Witness ==
  /\ op.name = "getTasksByStatus" /\ op.flag = FALSE
  /\ Len(ret) = 1
  /\ \E k \in OwnKeys(tasks, op.caller) : tasks[k].completed

\* C18: getComments(id) returns the empty sequence when the caller's task
\* has no comments, when no task has that id, and when the task with that
\* id belongs to another owner
C18_CommentsEmpty ==
  op.name = "getComments" =>
    /\ (\A k \in OwnKeysWithId(tasks, op.caller, op.id) : tasks[k].comments = <<>>)
         => ret = <<>>
    /\ (\A k \in DOMAIN tasks : tasks[k].id # op.id) => ret = <<>>
    /\ (\E k \in DOMAIN tasks : tasks[k].id = op.id /\ tasks[k].owner # op.caller)
         => ret = <<>>

\* getComments answered with the empty sequence for the id of another
\* owner's task that carries a comment
C18_Witness ==
  /\ op.name = "getComments"
  /\ ret = <<>>
  /\ \E k \in DOMAIN tasks :
       tasks[k].id = op.id /\ tasks[k].owner # op.caller /\ tasks[k].comments # <<>>

\* C19: addTask(title, description) by caller c returns the value
\* nextTaskId had before the call, increases nextTaskId by one and adds
\* exactly one record, with that id, owner c, the given title and
\* description, completed false and no comments; every record stored
\* before the call is still there, unchanged
C19_AddTask ==
  op.name = "addTask" =>
    /\ ret = before.nextTaskId
    /\ nextTaskId = before.nextTaskId + 1
    /\ DOMAIN before.tasks \subseteq DOMAIN tasks
    /\ \A k \in DOMAIN before.tasks : tasks[k] = before.tasks[k]
    /\ Cardinality(DOMAIN tasks \ DOMAIN before.tasks) = 1
    /\ \A k \in DOMAIN tasks \ DOMAIN before.tasks :
         /\ tasks[k].id = ret
         /\ tasks[k].owner = op.caller
         /\ tasks[k].title = op.text[1]
         /\ tasks[k].description = op.text[2]
         /\ tasks[k].completed = FALSE
         /\ tasks[k].comments = <<>>

\* addTask added a record to a mapping that held a completed record of
\* another owner
C19_Witness ==
  /\ op.name = "addTask"
  /\ \E k \in DOMAIN before.tasks :
       before.tasks[k].owner # op.caller /\ before.tasks[k].completed

\* C20: the identity fields are immutable: a record that is stored before
\* and after a step, whatever the operation and the caller, upgrades
\* included, has the same owner, id and createdAt after it as before
C20_IdentityFixed ==
  \A k \in DOMAIN tasks \cap DOMAIN before.tasks :
    /\ tasks[k].owner = before.tasks[k].owner
    /\ tasks[k].id = before.tasks[k].id
    /\ tasks[k].createdAt = before.tasks[k].createdAt

\* toggleStatus succeeded, at a time later than its creation, on a record
\* that carries a comment
C20_Witness ==
  /\ op.name = "toggleStatus" /\ ret = TRUE
  /\ \E k \in OwnKeysWithId(tasks, op.caller, op.id) :
       tasks[k].createdAt < now /\ tasks[k].comments # <<>>

\* The <<owner, id>> pairs addTask has issued, per the history h, whose
\* record is no longer in the map m: the tasks removed by deleteTask or
\* clearCompletedTasks
RemovedIn(h, m) == { p \in h : OwnKeysWithId(m, p[1], p[2]) = {} }

\* C21: a removed task stays removed: no step, addTask and the upgrade
\* steps included, brings back a record with the owner and id of a task
\* removed before it, toggleStatus, deleteTask and addComment on a removed
\* task return false, and clearCompletedTasks leaves every record that is
\* not completed in place and unchanged
C21_DeletedTerminal ==
  /\ \A p \in RemovedIn(before.issued, before.tasks) :
       \A k \in DOMAIN tasks : ~ (tasks[k].owner = p[1] /\ tasks[k].id = p[2])
  /\ (/\ op.name \in {"toggleStatus", "deleteTask", "addComment"}
      /\ <<op.caller, op.id>> \in RemovedIn(before.issued, before.tasks))
       => ret = FALSE
  /\ op.name = "clearCompletedTasks" =>
       \A k \in DOMAIN before.tasks :
         ~ before.tasks[k].completed => k \in DOMAIN tasks /\ tasks[k] = before.tasks[k]

\* addTask by an owner one of whose tasks clearCompletedTasks or deleteTask
\* removed earlier, served first after an upgrade
C21_Witness ==
  /\ op.name = "addTask" /\ op.flag
  /\ \E p \in RemovedIn(before.issued, before.tasks) : p[1] = op.caller

\* C22: createdAt follows the creation order of an owner's tasks: of two
\* records of one owner the one with the smaller id has a createdAt that
\* is not later than the other's (the clock never goes backwards)
C22_CreatedAtOrder ==
  \A k1, k2 \in DOMAIN tasks :
    (tasks[k1].owner = tasks[k2].owner /\ tasks[k1].id < tasks[k2].id)
      => tasks[k1].createdAt <= tasks[k2].createdAt

\* One owner holds two records created at different times, the older of
\* which has been toggled after the clock advanced
C22_Witness ==
  /\ op.name = "toggleStatus" /\ ret = TRUE
  /\ \E k1, k2 \in OwnKeys(tasks, op.caller) :
       /\ tasks[k1].id = op.id
       /\ tasks[k1].id < tasks[k2].id
       /\ tasks[k1].createdAt < tasks[k2].createdAt

\* C23: in every state, also right after postupgrade, each entry of the
\* mapping lies under the key makeTaskKey builds from its record's owner
\* and id, and no two entries hold the record of one owner and id
C23_KeyInvariant ==
  /\ \A k \in DOMAIN tasks : k = makeTaskKey(tasks[k].owner, tasks[k].id)
  /\ \A k1, k2 \in DOMAIN tasks :
       (tasks[k1].owner = tasks[k2].owner /\ tasks[k1].id = tasks[k2].id) => k1 = k2

\* postupgrade has rebuilt a mapping with records of two owners
C23_Witness ==
  /\ op.name = "postupgrade"
  /\ \E k1, k2 \in DOMAIN tasks : tasks[k1].owner # tasks[k2].owner

\* C24: the ids come from one counter shared by all owners: in every state
\* no two entries of the store, whatever their owners, have the same id
C24_GlobalIds ==
  \A k1, k2 \in DOMAIN tasks : tasks[k1].id = tasks[k2].id => k1 = k2

\* The store holds records of two different owners, the second added
\* first after an upgrade
C24_Witness ==
  /\ op.name = "addTask" /\ op.flag
  /\ \E k \in DOMAIN tasks : tasks[k].owner # op.caller

\* The orders in which the calls of the slots S can be served one by one
SlotOrders(S) == KeyOrders(S)

RECURSIVE SerialRun(_, _, _)
\* The calls of the slots in order run one after the other, each from its
\* first statement to its last, from the store st: <<store, results>>,
\* results being the <<slot, result>> pairs
SerialRun(st, order, results) ==
  IF order = <<>> THEN <<st, results>>
  ELSE LET c == calls.slot[Head(order)]
           fresh == [c EXCEPT !.status = "running", !.pc = 1, !.local = 0, !.result = 0]
           r == RunToEnd(st, fresh)
       IN SerialRun(r[1], Tail(order), results \cup { <<Head(order), r[2].result>> })

\* C25: update calls in flight at once take effect one whole call at a
\* time: two addTask calls in flight together never return the same id,
\* and once all calls in flight have completed, the store and the results
\* returned are those of the calls served in some order one after the other
C25_Atomic ==
  /\ \A s1, s2 \in 1 .. MaxCalls :
       (/\ s1 # s2
        /\ calls.slot[s1].name = "addTask" /\ calls.slot[s1].status = "done"
        /\ calls.slot[s2].name = "addTask" /\ calls.slot[s2].status = "done")
         => calls.slot[s1].result # calls.slot[s2].result
  /\ (\A s \in 1 .. MaxCalls : calls.slot[s].status = "done") =>
       \E order \in SlotOrders(1 .. MaxCalls) :
         LET r == SerialRun(calls.base, order, {})
         IN /\ r[1] = Store
            /\ r[2] = { <<s, calls.slot[s].result>> : s \in 1 .. MaxCalls }

\* Two addTask calls of different owners were in flight together and both
\* have completed
C25_Witness ==
  \E s1, s2 \in 1 .. MaxCalls :
    /\ calls.slot[s1].name = "addTask" /\ calls.slot[s1].status = "done"
    /\ calls.slot[s2].name = "addTask" /\ calls.slot[s2].status = "done"
    /\ calls.slot[s1].caller # calls.slot[s2].caller

\* C26: in every state, right after postupgrade included, nextTaskId is at
\* least 1 and greater than the id of every record of the mapping
C26_CounterBound ==
  /\ nextTaskId >= 1
  /\ \A k \in DOMAIN tasks : nextTaskId > tasks[k].id

\* postupgrade has just restored a mapping that holds the record with the
\* last id issued
C26_Witness ==
  /\ op.name = "postupgrade"
  /\ \E k \in DOMAIN tasks : tasks[k].id = nextTaskId - 1

\* The queries of the actor
Queries == {"getTasks", "getTaskById", "getTaskCount", "getTasksByStatus", "getMyPrincipal"}

\* C27: the queries are read-only: a query step leaves the mapping and
\* nextTaskId as they were, and a query repeated by the same caller right
\* after itself returns the answer it returned before
C27_ReadOnly ==
  op.name \in Queries =>
    /\ tasks = before.tasks
    /\ nextTaskId = before.nextTaskId
    /\ op.text # <<>> => ret = op.text[1]

\* getTasks, repeated right after itself by a caller with two records,
\* returned the two records again
C27_Witness ==
  /\ op.name = "getTasks"
  /\ op.text # <<>>
  /\ Len(ret) = 2

\* C28: whenever AuthProvider is not loading and isAuthenticated is true,
\* backendActor is not null, also after a run in which
\* createAuthenticatedBackend has failed.
C28_ActorWhenSignedIn ==
  (~front.loading /\ front.isAuthenticated) => front.backendActor

C30_ViewConsistent ==
  ( /\ Mounted(front)
    /\ front.backendActor
    /\ front.run = "none"
    /\ Idle(front)
    /\ ~front.faulted )
  => /\ Range(front.tasks) = { FormatTask(tasks[k]) : k \in OwnKeys(tasks, User) }
     /\ NoDuplicates(front.tasks)

============================================================================
